---------------------------- MODULE Spec2Model ----------------------------
(***************************************************************************)
(* Model of the vector renderer: the path segment -> path event iterator   *)
(* (PathConvIter, render.rs / svg.rs) and the draw call table of Render    *)
(* (render.rs).                                                            *)
(*                                                                         *)
(* Four specifications share the variables:                                *)
(*   SpecPath    one PathConvIter, built by convert_path over a bounded    *)
(*               segment sequence, pulled until exhaustion;                *)
(*   Spec        one Render, driven by its public operations;              *)
(*   SpecResize  one Render whose window is resized between frames;        *)
(*   SpecSvg     one Render handed one SVG document (upload_svg of         *)
(*               render.rs, Svg::from_str and Svg::upload of svg.rs).      *)
(***************************************************************************)
EXTENDS Integers, Sequences, FiniteSets, TLC

VARIABLES
    \* ---- PathConvIter (render.rs:514-520) ----
    path,            \* the segment slice handed to convert_path (p.data)
    iter,            \* the slice iterator: the index of the next segment
    prev,            \* PathConvIter.prev
    first,           \* PathConvIter.first
    needs_end,       \* PathConvIter.needs_end
    deferred,        \* PathConvIter.deferred: <<>> is None, <<e>> is Some(e)
    events,          \* the events returned by next() so far, in order
    cause,           \* for each returned event, the match arm that built it
    done,            \* next() has returned None
    \* ---- Render (render.rs:28-41) ----
    draw_calls,      \* Render.draw_calls: a sequence of DrawCall records
    missing_bindings,\* Render.missing_bindings
    issued,          \* the Mesh handles returned by the uploads, in call order
    call,            \* the most recent call on Render and what it returned
    panicked,        \* the process has panicked (unwrap / expect / assert)
    offscreen_pass,  \* Render.offscreen_pass: a RenderPass, an index into ctx.passes
    post_processing_bind, \* Render.post_processing_bind: its images
    \* ---- miniquad Context ----
    ctx,             \* the GPU objects made so far: buffers, textures, passes
    \* ---- the document under upload (SpecSvg) ----
    svg,             \* the SVG text handed to upload_svg / Svg::from_str,
                     \* <<>> where none is at hand
    \* ---- text.rs (SpecFont) ----
    font,            \* Font.font, the parsed TtfFont; <<>> where none is loaded
    font_instance,   \* the FontInstance Font::upload returned: <<>> or <<it>>
    builder          \* the GlyphBuilder handed to outline_glyph: <<>> or <<it>>

pathVars == <<path, iter, prev, first, needs_end, deferred, events, cause, done>>
renderVars == <<draw_calls, missing_bindings, issued, call, panicked>>
targetVars == <<offscreen_pass, post_processing_bind>>
vars == <<path, iter, prev, first, needs_end, deferred, events, cause, done,
          draw_calls, missing_bindings, issued, call, panicked,
          offscreen_pass, post_processing_bind, ctx, svg, font, font_instance, builder>>

-----------------------------------------------------------------------------
(* Bounds *)

\* longest segment sequence handed to convert_path
MaxSegs == 5
\* most draw calls uploaded to one Render
MaxUploads == 2
\* most resize events handled by one Render
MaxResizes == 2
\* most nodes in the tree of an SVG document
MaxNodes == 2
\* most characters in one glyph request (the chars of Font::upload)
MaxChars == 2
\* most characters in one text laid out by FontInstance::text
MaxText == 2

-----------------------------------------------------------------------------
(* Points and the f64 -> f32 cast of point() *)

\* 2^24: every integer below it is an f32; above it f32 keeps even integers
F32Exact == 16777216

\* (x as f32) for a non-negative integer x < 2^25: exact below 2^24, above it
\* rounded to the nearest multiple of 2, a tie going to the even mantissa.
F32(x) ==
    IF x <= F32Exact THEN x
    ELSE IF x % 2 = 0 THEN x
    ELSE IF ((x - 1) \div 2) % 2 = 0 THEN x - 1 ELSE x + 1

\* fn point(x: &f64, y: &f64) -> Point
point(x, y) == <<F32(x), F32(y)>>

\* Point::new(0.0, 0.0)
Origin == <<0, 0>>

\* the f64 coordinates the segments are drawn from; BigCoord is not an f32
BigCoord == F32Exact + 1
XCoords == {1, BigCoord}
YCoords == {7}

-----------------------------------------------------------------------------
(* usvg::PathSegment *)

MoveTo(x, y) == [type |-> "MoveTo", x |-> x, y |-> y]
LineTo(x, y) == [type |-> "LineTo", x |-> x, y |-> y]
CurveTo(x1, y1, x2, y2, x, y) ==
    [type |-> "CurveTo", x1 |-> x1, y1 |-> y1, x2 |-> x2, y2 |-> y2, x |-> x, y |-> y]
ClosePath == [type |-> "ClosePath"]

Segments ==
    {MoveTo(x, y) : x \in XCoords, y \in YCoords}
    \cup {LineTo(x, y) : x \in XCoords, y \in YCoords}
    \cup {CurveTo(1, 7, BigCoord, 7, x, y) : x \in XCoords, y \in YCoords}
    \cup {ClosePath}

SeqsUpTo(S, n) == UNION {[1..k -> S] : k \in 0..n}

-----------------------------------------------------------------------------
(* lyon::path::PathEvent *)

Begin(at) == [type |-> "Begin", at |-> at]
Line(from, to) == [type |-> "Line", from |-> from, to |-> to]
Cubic(from, ctrl1, ctrl2, to) ==
    [type |-> "Cubic", from |-> from, ctrl1 |-> ctrl1, ctrl2 |-> ctrl2, to |-> to]
End(last, frst, close) == [type |-> "End", last |-> last, first |-> frst, close |-> close]

None == <<>>
Some(e) == <<e>>

-----------------------------------------------------------------------------
(* PathConvIter::next, render.rs:522-601 (svg.rs:176-255 is the same code). *)
(* Each arm yields the new fields and the returned Option<PathEvent>.       *)

\* if self.deferred.is_some() { return self.deferred.take(); }
DeferredTake ==
    [prev |-> prev, first |-> first, needs_end |-> needs_end,
     deferred |-> None, ret |-> deferred]

\* MoveToArm with the End of the interrupted subpath ending where it began
MoveToArmLastFirst(x, y) ==
    IF needs_end
    THEN [prev |-> point(x, y), first |-> point(x, y), needs_end |-> FALSE,
          deferred |-> Some(Begin(point(x, y))),
          ret |-> Some(End(first, first, FALSE))]
    ELSE [prev |-> prev, first |-> point(x, y), needs_end |-> needs_end,
          deferred |-> deferred, ret |-> Some(Begin(point(x, y)))]

\* Some(PathSegment::MoveTo { x, y })
MoveToArm(x, y) ==
    IF needs_end
    THEN [prev |-> point(x, y), first |-> point(x, y), needs_end |-> FALSE,
          deferred |-> Some(Begin(point(x, y))),
          ret |-> Some(End(prev, first, FALSE))]
    ELSE [prev |-> prev, first |-> point(x, y), needs_end |-> needs_end,
          deferred |-> deferred, ret |-> Some(Begin(point(x, y)))]

\* Some(PathSegment::LineTo { x, y })
LineToArm(x, y) ==
    [prev |-> point(x, y), first |-> first, needs_end |-> TRUE,
     deferred |-> deferred, ret |-> Some(Line(prev, point(x, y)))]

\* Some(PathSegment::CurveTo { x1, y1, x2, y2, x, y })
CurveToArm(x1, y1, x2, y2, x, y) ==
    [prev |-> point(x, y), first |-> first, needs_end |-> TRUE,
     deferred |-> deferred,
     ret |-> Some(Cubic(prev, point(x1, y1), point(x2, y2), point(x, y)))]

\* ClosePathArm with the End left open (close: false)
ClosePathArmOpen ==
    [prev |-> first, first |-> first, needs_end |-> FALSE,
     deferred |-> deferred, ret |-> Some(End(first, first, FALSE))]

\* Some(PathSegment::ClosePath): prev is reset before the End is built
ClosePathArm ==
    [prev |-> first, first |-> first, needs_end |-> FALSE,
     deferred |-> deferred, ret |-> Some(End(first, first, TRUE))]

\* NoneArm that leaves needs_end set
NoneArmKeepsEnd ==
    IF needs_end
    THEN [prev |-> prev, first |-> first, needs_end |-> needs_end,
          deferred |-> deferred, ret |-> Some(End(prev, first, FALSE))]
    ELSE [prev |-> prev, first |-> first, needs_end |-> needs_end,
          deferred |-> deferred, ret |-> None]

\* None: the slice iterator is exhausted
NoneArm ==
    IF needs_end
    THEN [prev |-> prev, first |-> first, needs_end |-> FALSE,
          deferred |-> deferred, ret |-> Some(End(prev, first, FALSE))]
    ELSE [prev |-> prev, first |-> first, needs_end |-> needs_end,
          deferred |-> deferred, ret |-> None]

\* match next { ... } on segment s
SegmentArm(s) ==
    CASE s.type = "MoveTo" -> MoveToArm(s.x, s.y)
      [] s.type = "LineTo" -> LineToArm(s.x, s.y)
      [] s.type = "CurveTo" -> CurveToArm(s.x1, s.y1, s.x2, s.y2, s.x, s.y)
      [] s.type = "ClosePath" -> ClosePathArm

\* which arm answers the pull in the current state
ArmName ==
    IF deferred # None THEN "deferred"
    ELSE IF iter <= Len(path) THEN path[iter].type
    ELSE "None"

\* fn next(&mut self) -> Option<PathEvent>: one pull
PathConvIterNext ==
    LET r == IF deferred # None THEN DeferredTake
             ELSE IF iter <= Len(path) THEN SegmentArm(path[iter])
             ELSE NoneArm
    IN  /\ iter' = IF deferred = None /\ iter <= Len(path) THEN iter + 1 ELSE iter
        /\ prev' = r.prev
        /\ first' = r.first
        /\ needs_end' = r.needs_end
        /\ deferred' = r.deferred
        /\ events' = IF r.ret # None THEN Append(events, r.ret[1]) ELSE events
        /\ cause' = IF r.ret # None THEN Append(cause, ArmName) ELSE cause
        /\ done' = (done \/ r.ret = None)
        /\ UNCHANGED <<path, draw_calls, missing_bindings, issued, call, panicked>>
        /\ UNCHANGED <<offscreen_pass, post_processing_bind, ctx, svg, font, font_instance, builder>>

\* fn convert_path(p) -> PathConvIter, render.rs:607-615, over segment slice p
convert_path(p) ==
    /\ path = p
    /\ iter = 1
    /\ first = Origin
    /\ prev = Origin
    /\ deferred = None
    /\ needs_end = FALSE
    /\ events = <<>>
    /\ cause = <<>>
    /\ done = FALSE

\* the window sizes: what ctx.screen_size() returns and what the resize
\* events carry (width, height)
ScreenSizes == {<<800, 600>>, <<1920, 1080>>}

\* the size of the window when Render::new runs
InitialScreenSize == <<800, 600>>

\* a Context that has made no GPU object yet: the numbers of buffers and
\* textures made, and the render passes made (RenderPass(i) is passes[i])
NewContext == [buffers |-> 0, textures |-> 0, passes |-> <<>>, data |-> <<>>]

\* Self::create_offscreen_pass(ctx, width, height), render.rs:349-370, on
\* context c: a colour and a depth render texture of that size and the
\* RenderPass over them; yields the context, the colour texture, the pass
CreateOffscreenPass(c, width, height) ==
    LET color_img == c.textures + 1
        depth_img == c.textures + 2
        pass == [color_img |-> color_img, depth_img |-> depth_img,
                 width |-> width, height |-> height, deleted |-> 0,
                 allocated |-> TRUE]
    IN  [ctx |-> [c EXCEPT !.textures = @ + 2, !.passes = Append(@, pass)],
         color_img |-> color_img,
         offscreen_pass |-> Len(c.passes) + 1]

\* Render::new, render.rs:45-126: the offscreen pass at the screen size, the
\* two buffers of the full-screen quad, an empty table
RenderNew ==
    LET t == CreateOffscreenPass(NewContext, InitialScreenSize[1], InitialScreenSize[2])
    IN  /\ draw_calls = <<>>
        /\ missing_bindings = FALSE
        /\ issued = <<>>
        /\ call = [op |-> "new", mesh |-> -1, arg |-> <<>>, result |-> "ok", cmds |-> <<>>]
        /\ panicked = FALSE
        /\ ctx = [t.ctx EXCEPT !.buffers = @ + 2]
        /\ offscreen_pass = t.offscreen_pass
        /\ post_processing_bind =
              [vertex_buffers |-> <<1>>, index_buffer |-> 2, images |-> <<t.color_img>>]

InitPath ==
    /\ \E p \in SeqsUpTo(Segments, MaxSegs) : convert_path(p)
    /\ RenderNew
    /\ svg = None
    /\ font = None
    /\ font_instance = None
    /\ builder = None

SpecPath == InitPath /\ [][PathConvIterNext]_vars

-----------------------------------------------------------------------------
(* Render: the draw call table, render.rs:28-410 *)

\* const MAX_MESH_INSTANCES: usize = 1024 * 1024, scaled down: the instance
\* count the streaming buffer of create_bindings is sized for
MAX_MESH_INSTANCES == 1

\* Instance::new(x, y), render.rs:429-435
InstanceNew(x, y) == [position |-> <<x, y>>, rotation |-> 0, scale |-> 1]

\* the instance lists handed to set_instances and found by the queries of
\* update: up to one more than the buffer holds, of distinct instances in
\* ascending x order
InstLists ==
    {l \in SeqsUpTo({InstanceNew(x, 0) : x \in 0..MAX_MESH_INSTANCES},
                    MAX_MESH_INSTANCES + 1) :
        \A i \in 1..(Len(l) - 1) : l[i].position[1] < l[i + 1].position[1]}

\* VertexBuffers<Vertex, u16> as the tessellators leave them: a triangle and
\* a quad (vertices by id, 16 bit indices)
Geoms ==
    {[vertices |-> <<1, 2, 3>>, indices |-> <<0, 1, 2>>],
     [vertices |-> <<1, 2, 3, 4>>, indices |-> <<0, 1, 2, 0, 2, 3>>]}

\* the outcome of FillTessellator::tessellate on the uploaded path
\* (render.rs:139-145): Ok with the geometry built, or Err
TessResults == {[ok |-> TRUE, geometry |-> g] : g \in Geoms}
               \cup {[ok |-> FALSE, geometry |-> [vertices |-> <<>>, indices |-> <<>>]]}

\* a usvg Fill or Stroke as the upload reads it: whether its paint is a
\* plain colour (Paint::Color) or a link to a gradient or pattern, and what
\* the tessellator makes of the path under it
Styles == {[paint |-> "Color", tess |-> "ok"],
           [paint |-> "Color", tess |-> "err"],
           [paint |-> "Link", tess |-> "ok"]}

\* the nodes of a usvg tree: a path with an optional fill and an optional
\* stroke, or a node of another kind
SvgNodes ==
    {[kind |-> "Group"]}
    \cup {[kind |-> "Path", fill |-> f, stroke |-> k] :
             f \in {None} \cup {Some(x) : x \in Styles},
             k \in {None} \cup {Some(x) : x \in Styles}}

\* a text Tree::from_str rejects
Unparsable == [parsed |-> FALSE, nodes |-> <<>>]

\* the SVG texts: one that does not parse, and the trees of up to MaxNodes
\* nodes in document order
AllSvgDocs ==
    {Unparsable} \cup {[parsed |-> TRUE, nodes |-> n] : n \in SeqsUpTo(SvgNodes, MaxNodes)}

\* the documents uploaded beside the other operations: one that does not
\* parse, one whose fill fails to tessellate, one with a single filled path
SvgDocs ==
    {Unparsable}
    \cup {[parsed |-> TRUE,
           nodes |-> <<[kind |-> "Path", fill |-> Some([paint |-> "Color", tess |-> t]),
                        stroke |-> None]>>] : t \in {"ok", "err"}}

\* VertexBuffers::new()
NoGeometry == [vertices |-> <<>>, indices |-> <<>>]

\* the vertices the fill tessellator makes of the path of node i (a
\* triangle), and the stroke tessellator (a quad), by id
FillPiece(i) == [j \in 1..3 |-> 10 * (i - 1) + j]
StrokePiece(i) == [j \in 1..4 |-> 10 * (i - 1) + 4 + j]

\* BuffersBuilder on geometry g: the vertices are appended and the indices
\* of the run are offset by the number of vertices g held
BuffersBuilder(g, vertices, indices) ==
    [vertices |-> g.vertices \o vertices,
     indices |-> g.indices \o [j \in 1..Len(indices) |-> indices[j] + Len(g.vertices)]]

\* StrokeTess with the vertices of a failed run left in the buffers
StrokeTessKept(g, stroke, i) ==
    BuffersBuilder(g, StrokePiece(i), <<0, 1, 2, 0, 2, 3>>)

\* let _ = stroke_tess.tessellate(...), render.rs:213-220, svg.rs:290-297:
\* the result is dropped; a failed run leaves the buffers as they were
StrokeTess(g, stroke, i) ==
    IF stroke.tess = "ok"
    THEN BuffersBuilder(g, StrokePiece(i), <<0, 1, 2, 0, 2, 3>>)
    ELSE g

RECURSIVE TessNodes(_, _, _, _)
\* for node in rtree.root().descendants() { ... } from node i on, with
\* geometry g built so far (render.rs:188-223, svg.rs:265-300); onFillErr is
\* what a failed fill makes of the call.  Yields the result and the geometry.
TessNodes(nodes, i, g, onFillErr) ==
    IF i > Len(nodes) THEN [result |-> "ok", geometry |-> g]
    ELSE LET n == nodes[i]
         IN  IF n.kind # "Path" THEN TessNodes(nodes, i + 1, g, onFillErr)
             ELSE IF n.fill # None /\ n.fill[1].paint # "Color"
             THEN [result |-> "panic", geometry |-> g]       \* todo!("Color not defined")
             ELSE IF n.fill # None /\ n.fill[1].tess # "ok"
             THEN [result |-> onFillErr, geometry |-> g]
             ELSE IF n.stroke # None /\ n.stroke[1].paint # "Color"
             THEN [result |-> "panic", geometry |-> g]       \* todo!("No fallback color")
             ELSE LET filled == IF n.fill # None
                                THEN BuffersBuilder(g, FillPiece(i), <<0, 1, 2>>)
                                ELSE g
                      stroked == IF n.stroke # None
                                 THEN StrokeTess(filled, n.stroke[1], i)
                                 ELSE filled
                  IN  TessNodes(nodes, i + 1, stroked, onFillErr)

\* NewDrawCall with the dirty flag left set
NewDrawCallDirty(geometry) ==
    [vertices |-> geometry.vertices,
     indices |-> geometry.indices,
     bindings |-> None,
     instances |-> <<>>,
     refresh_instances |-> TRUE]

\* the DrawCall literal of upload_path / upload_svg, render.rs:151-157, 229-235
NewDrawCall(geometry) ==
    [vertices |-> geometry.vertices,
     indices |-> geometry.indices,
     bindings |-> None,
     instances |-> <<>>,
     refresh_instances |-> FALSE]

\* PushDrawCall pushing the DrawCall twice
PushDrawCallTwice(dcs, dc) == Append(Append(dcs, dc), dc)

\* self.draw_calls.push(draw_call), render.rs:158 and 236
PushDrawCall(dcs, dc) == Append(dcs, dc)

\* NewMesh without the - 1
NewMeshOffByOne(dcs) == Len(dcs)

\* Mesh(self.draw_calls.len() - 1), render.rs:164 and 242, after the push
NewMesh(dcs) == Len(dcs) - 1

\* the record of the most recent call: its name, the Mesh it took or
\* returned (-1: none), the input it took, its result, and the GPU commands
\* it issued
Call(op, mesh, arg, result, cmds) ==
    [op |-> op, mesh |-> mesh, arg |-> arg, result |-> result, cmds |-> cmds]

\* the tail of upload_path and upload_svg, render.rs:150-164 and 228-242
Upload(op, arg, geometry) ==
    LET dcs == PushDrawCall(draw_calls, NewDrawCall(geometry))
    IN  /\ draw_calls' = dcs
        /\ missing_bindings' = TRUE
        /\ issued' = Append(issued, NewMesh(dcs))
        /\ call' = Call(op, NewMesh(dcs), arg, "ok", <<>>)
        /\ UNCHANGED panicked

\* a panic: the process is gone, nothing of it is observed afterwards
Panic(op, arg) ==
    /\ panicked' = TRUE
    /\ call' = Call(op, -1, arg, "panic", <<>>)
    /\ UNCHANGED <<draw_calls, missing_bindings, issued>>

\* return Err(..): the call has changed nothing
Err(op, arg) ==
    /\ call' = Call(op, -1, arg, "err", <<>>)
    /\ UNCHANGED <<draw_calls, missing_bindings, issued, panicked>>

\* pub fn upload_path(&mut self, path, color, opacity) -> Mesh, render.rs:131-165
UploadPath ==
    /\ ~panicked
    /\ Len(draw_calls) < MaxUploads
    /\ \E t \in TessResults :
          IF t.ok THEN Upload("upload_path", t, t.geometry)
          ELSE Panic("upload_path", t)       \* .unwrap(), render.rs:145
    /\ UNCHANGED <<targetVars, ctx, svg, font, font_instance, builder>>
    /\ UNCHANGED pathVars

\* pub fn upload_svg(&mut self, svg) -> Result<Mesh>, render.rs:170-243, on
\* document d: a failed fill panics at .expect("Tessellation failed")
UploadSvgOf(d) ==
    IF ~d.parsed THEN Err("upload_svg", d)                   \* `?`, render.rs:186
    ELSE LET t == TessNodes(d.nodes, 1, NoGeometry, "panic")
         IN  IF t.result = "panic" THEN Panic("upload_svg", d)
             ELSE Upload("upload_svg", d, t.geometry)

\* upload_svg called beside the other operations
UploadSvg ==
    /\ ~panicked
    /\ Len(draw_calls) < MaxUploads
    /\ \E d \in SvgDocs : UploadSvgOf(d)
    /\ UNCHANGED <<targetVars, ctx, svg, font, font_instance, builder>>
    /\ UNCHANGED pathVars

\* upload_svg called on the document svg
UploadSvgDoc ==
    /\ ~panicked
    /\ Len(draw_calls) < MaxUploads
    /\ UploadSvgOf(svg)
    /\ UNCHANGED <<targetVars, ctx, svg, font, font_instance, builder>>
    /\ UNCHANGED pathVars

\* fn parse_node(rtree) -> Result<VertexBuffers<Vertex, u16>>, svg.rs:257-303:
\* a failed fill is returned as an error
parse_node(nodes) == TessNodes(nodes, 1, NoGeometry, "err")

\* Render::upload_buffers(&geometry) -> Result<Mesh>: one DrawCall of the
\* buffers handed in, as the uploads of render.rs make it
UploadBuffers(arg, geometry) == Upload("Svg::upload", arg, geometry)

\* Svg::from_str(svg)?.upload(&mut render)?, svg.rs:33-55, main.rs:48-49, on
\* the document svg
SvgUpload ==
    /\ ~panicked
    /\ Len(draw_calls) < MaxUploads
    /\ IF ~svg.parsed THEN Err("Svg::from_str", svg)         \* `?`, svg.rs:40
       ELSE LET t == parse_node(svg.nodes)
            IN  IF t.result = "panic" THEN Panic("Svg::from_str", svg)
                ELSE IF t.result = "err" THEN Err("Svg::from_str", svg)
                ELSE UploadBuffers(svg, t.geometry)
    /\ UNCHANGED <<targetVars, ctx, svg, font, font_instance, builder>>
    /\ UNCHANGED pathVars

\* SetInstancesDc extending the list instead of replacing it
SetInstancesDcAppend(dc, instances) ==
    [dc EXCEPT !.instances = @ \o instances, !.refresh_instances = TRUE]

\* the body of set_instances on the DrawCall, render.rs:344-345
SetInstancesDc(dc, instances) ==
    [dc EXCEPT !.instances = instances, !.refresh_instances = TRUE]

\* set_instances writing through every DrawCall instead of the indexed one
SetInstancesEvery(dcs, mesh, instances) ==
    [i \in 1..Len(dcs) |-> SetInstancesDc(dcs[i], instances)]

\* let mut dc = &mut self.draw_calls[mesh.0] and the two writes through it,
\* render.rs:342-345, on the table
SetInstancesAt(dcs, mesh, instances) ==
    [dcs EXCEPT ![mesh + 1] = SetInstancesDc(@, instances)]

\* pub fn set_instances(&mut self, mesh: &Mesh, instances: Vec<Instance>),
\* render.rs:341-346, with one of lists; a Mesh is only ever built by the
\* uploads
SetInstancesOn(lists) ==
    /\ ~panicked
    /\ \E k \in 1..Len(issued), l \in lists :
          LET mesh == issued[k]
          IN  /\ draw_calls' = SetInstancesAt(draw_calls, mesh, l)
              /\ call' = Call("set_instances", mesh, l, "ok", <<>>)
    /\ UNCHANGED <<missing_bindings, issued, panicked>>
    /\ UNCHANGED <<targetVars, ctx, svg, font, font_instance, builder>>
    /\ UNCHANGED pathVars

\* set_instances with any of the lists
SetInstances == SetInstancesOn(InstLists)

\* the lists that fit the streaming buffer: no instance, or one
FitLists == {l \in InstLists : Len(l) <= MAX_MESH_INSTANCES /\ \A i \in 1..Len(l) : l[i].position[1] = 0}

\* set_instances with a list that fits
SetInstancesFit == SetInstancesOn(FitLists)

\* the closure of update on one DrawCall, render.rs:251-265; queried is what
\* the query for the entities tagged Mesh(index) yields
UpdateDc(dc, queried) ==
    [dc EXCEPT !.instances = IF ~dc.refresh_instances THEN queried ELSE @,
               !.refresh_instances = TRUE]

\* the query for update's DrawCall without the tag filter: the Instance
\* components of all entities
QueryAll(world, mesh) == [k \in 1..Len(world) |-> world[k].instance]

\* <Read<Instance>>::query().filter(tag_value(&mesh)).iter(world), render.rs:254-258:
\* the Instance components of the entities of world tagged mesh
Query(world, mesh) ==
    LET tagged == SelectSeq(world, LAMBDA e : e.mesh = mesh)
    IN  [k \in 1..Len(tagged) |-> tagged[k].instance]

RECURSIVE Entities(_, _)
\* a legion World: the entities with an Instance component and a Mesh tag
\* that hold, for Mesh(i - 1) with i up to n, the instances tagged[i]
Entities(tagged, n) ==
    IF n = 0 THEN <<>>
    ELSE [k \in 1..Len(tagged[n]) |-> [mesh |-> n - 1, instance |-> tagged[n][k]]]
         \o Entities(tagged, n - 1)

\* the worlds in which the entities tagged with one Mesh hold one of lists
Worlds(lists) ==
    {Entities(tagged, Len(draw_calls)) : tagged \in [1..Len(draw_calls) -> lists]}

\* pub fn update(&mut self, world: &mut World), render.rs:246-266, on one of
\* worlds; the call keeps the world it was given if recorded
UpdateOn(worlds, recorded) ==
    /\ ~panicked
    /\ \E world \in worlds :
          /\ draw_calls' = [i \in 1..Len(draw_calls) |->
                              UpdateDc(draw_calls[i], Query(world, i - 1))]
          /\ call' = Call("update", -1, IF recorded THEN world ELSE <<>>, "ok", <<>>)
    /\ UNCHANGED <<missing_bindings, issued, panicked>>
    /\ UNCHANGED <<targetVars, ctx, svg, font, font_instance, builder>>
    /\ UNCHANGED pathVars

\* update, the world not kept
Update == UpdateOn(Worlds(InstLists), FALSE)

\* update on a world whose lists fit
UpdateFit == UpdateOn(Worlds(FitLists), FALSE)

\* the worlds that are kept: for every Mesh no entity or one, which is where
\* no set_instances of the model places an instance and no entity of
\* another Mesh is
TaggedWorlds ==
    {Entities([i \in 1..Len(draw_calls) |->
                 IF i \in S THEN <<InstanceNew(MAX_MESH_INSTANCES + i, 0)>> ELSE <<>>],
              Len(draw_calls)) : S \in SUBSET (1..Len(draw_calls))}

\* update, the world kept in the call
UpdateWorld == UpdateOn(TaggedWorlds, TRUE)

\* DrawCall::create_bindings, render.rs:390-409, on a context that has made
\* nbuf buffers: two immutable buffers holding the geometry and a streaming
\* buffer sized for MAX_MESH_INSTANCES instances, made in that order
CreateBindings(dc, nbuf) ==
    [dc EXCEPT !.bindings = Some([vertex_buffers |-> <<nbuf + 1, nbuf + 3>>,
                                  index_buffer |-> nbuf + 2,
                                  images |-> <<>>,
                                  vertex_data |-> dc.vertices,
                                  index_data |-> dc.indices,
                                  stream_capacity |-> MAX_MESH_INSTANCES])]

\* the DrawCalls before index i that have no binding
NoneBefore(dcs, i) == Cardinality({j \in 1..(i - 1) : dcs[j].bindings = None})

\* EnsureBindings without the is_none test: every DrawCall gets new bindings
EnsureBindingsAll(dcs, missing) ==
    IF missing
    THEN [i \in 1..Len(dcs) |-> CreateBindings(dcs[i], ctx.buffers + 3 * (i - 1))]
    ELSE dcs

\* the block without its loop: no DrawCall gets bindings
EnsureBindingsSkipped(dcs, missing) == dcs

\* if self.missing_bindings { ... }, render.rs:273-282, on the table
EnsureBindings(dcs, missing) ==
    IF missing
    THEN [i \in 1..Len(dcs) |->
            IF dcs[i].bindings = None
            THEN CreateBindings(dcs[i], ctx.buffers + 3 * NoneBefore(dcs, i))
            ELSE dcs[i]]
    ELSE dcs

\* the buffers the context has made once that block is through
BuffersAfter(dcs, missing) ==
    IF missing THEN ctx.buffers + 3 * NoneBefore(dcs, Len(dcs) + 1) ELSE ctx.buffers

\* dc.bindings.as_ref().unwrap() panics, render.rs:298
UnwrapPanics(dc) == dc.instances # <<>> /\ dc.bindings = None

\* bindings.vertex_buffers[1].update(ctx, &dc.instances), render.rs:301,
\* is handed more bytes than the streaming buffer was created with
StreamOverflows(dc) ==
    /\ dc.instances # <<>>
    /\ dc.bindings # None
    /\ dc.refresh_instances
    /\ Len(dc.instances) > dc.bindings[1].stream_capacity

\* a round of the draw loop that leaves the flag as it was
DrawDcKeepsFlag(dc) == dc

\* one round of the draw loop on a DrawCall, render.rs:291-314: the DrawCall
\* it leaves
DrawDc(dc) ==
    IF dc.instances = <<>> THEN dc
    ELSE [dc EXCEPT !.refresh_instances = FALSE]

\* the GPU commands of that round for the DrawCall of Mesh(mesh)
DrawDcCmds(dc, mesh) ==
    IF dc.instances = <<>> THEN <<>>
    ELSE (IF dc.refresh_instances
          THEN <<[cmd |-> "update", mesh |-> mesh, data |-> dc.instances]>>
          ELSE <<>>)
         \o <<[cmd |-> "draw", mesh |-> mesh, elements |-> Len(dc.indices),
               instances |-> Len(dc.instances)]>>

\* the DrawCalls of dcs whose instances the draw loop writes to their
\* streaming buffer: Buffer::update, render.rs:301, called with more data
\* than the buffer holds writes nothing where the platform lets it return
Streamed(dcs) ==
    {i \in 1..Len(dcs) :
        /\ dcs[i].instances # <<>>
        /\ dcs[i].refresh_instances
        /\ ~StreamOverflows(dcs[i])}

\* the streaming buffer of a DrawCall: vertex_buffers[1] of its bindings
StreamBuffer(dc) == dc.bindings[1].vertex_buffers[2]

\* the contents of the streaming buffers once the draw loop has run on
\* dcs, data being the contents before
BufferUpdate(data, dcs) ==
    [b \in DOMAIN data \cup {StreamBuffer(dcs[i]) : i \in Streamed(dcs)} |->
        IF \E i \in Streamed(dcs) : StreamBuffer(dcs[i]) = b
        THEN dcs[CHOOSE i \in Streamed(dcs) : StreamBuffer(dcs[i]) = b].instances
        ELSE data[b]]

RECURSIVE DrawLoopCmds(_, _)
\* for dc in self.draw_calls.iter_mut() { ... } from DrawCall i on
DrawLoopCmds(dcs, i) ==
    IF i > Len(dcs) THEN <<>>
    ELSE DrawDcCmds(dcs[i], i - 1) \o DrawLoopCmds(dcs, i + 1)

RECURSIVE CreateCmds(_, _)
\* the create_bindings calls of render.rs:274-279 from DrawCall i on
CreateCmds(dcs, i) ==
    IF i > Len(dcs) THEN <<>>
    ELSE (IF dcs[i].bindings = None
          THEN <<[cmd |-> "create_bindings", mesh |-> i - 1]>> ELSE <<>>)
         \o CreateCmds(dcs, i + 1)

\* FrameCmds with the offscreen pass begun on the pass Render::new made
FrameCmdsFirstPass(dcs, missing) ==
    (IF missing THEN CreateCmds(dcs, 1) ELSE <<>>)
    \o <<[cmd |-> "begin_pass", pass |-> 1]>>
    \o DrawLoopCmds(EnsureBindings(dcs, missing), 1)
    \o <<[cmd |-> "end_render_pass"],
          [cmd |-> "begin_default_pass"],
          [cmd |-> "draw_post", images |-> post_processing_bind.images,
           elements |-> 6, instances |-> 1],
          [cmd |-> "end_render_pass"],
          [cmd |-> "commit_frame"]>>

\* the commands of one whole render call, render.rs:269-329, in issue order
FrameCmds(dcs, missing) ==
    (IF missing THEN CreateCmds(dcs, 1) ELSE <<>>)
    \o <<[cmd |-> "begin_pass", pass |-> offscreen_pass]>>
    \o DrawLoopCmds(EnsureBindings(dcs, missing), 1)
    \o <<[cmd |-> "end_render_pass"],
          [cmd |-> "begin_default_pass"],
          [cmd |-> "draw_post", images |-> post_processing_bind.images,
           elements |-> 6, instances |-> 1],
          [cmd |-> "end_render_pass"],
          [cmd |-> "commit_frame"]>>

\* pub fn render(&mut self, ctx: &mut Context), render.rs:269-329.  The
\* unwrap of a missing binding panics.  What Buffer::update does with more
\* data than the buffer holds is the platform's: it asserts (a panic) or
\* the write is refused and the frame goes on.
RenderOn(tracked) ==
    /\ ~panicked
    /\ LET bound == EnsureBindings(draw_calls, missing_bindings)
       IN  \E asserts \in BOOLEAN :
             IF \/ \E i \in 1..Len(bound) : UnwrapPanics(bound[i])
                \/ asserts /\ \E i \in 1..Len(bound) : StreamOverflows(bound[i])
             THEN Panic("render", <<>>) /\ UNCHANGED ctx
             ELSE /\ draw_calls' = [i \in 1..Len(bound) |-> DrawDc(bound[i])]
                  /\ missing_bindings' = FALSE
                  /\ call' = Call("render", -1, <<>>, "ok",
                                  FrameCmds(draw_calls, missing_bindings))
                  /\ ctx' = [ctx EXCEPT !.buffers = BuffersAfter(draw_calls, missing_bindings),
                                        !.data = IF tracked THEN BufferUpdate(@, bound)
                                                            ELSE @]
                  /\ UNCHANGED <<issued, panicked>>
    /\ UNCHANGED <<targetVars, svg, font, font_instance, builder>>
    /\ UNCHANGED pathVars

\* render, the contents of the streaming buffers not followed
RenderFrame == RenderOn(FALSE)

\* render, the contents of the streaming buffers followed in ctx.data
RenderStream == RenderOn(TRUE)

\* RenderPass::delete without effect: the pass and its textures stay
PassDeleteNot(c, pass) == c

\* self.offscreen_pass.delete(ctx), render.rs:335, on context c: the pass,
\* with the two textures it renders to, is released; a released pass keeps
\* its place in passes and has no size any more
PassDelete(c, pass) ==
    [c EXCEPT !.passes[pass] = [@ EXCEPT !.width = 0, !.height = 0,
                                         !.deleted = @ + 1]]

\* the textures of pass on context c are allocated by the driver or are not:
\* Texture::new_render_texture and RenderPass::new (render.rs:350-369)
\* return the handles either way
Allocation(c, pass, allocated) ==
    [c EXCEPT !.passes[pass].allocated = allocated]

\* a resize that leaves the post-processing input as it was
RebindNot(bind, color_img) == bind

\* self.post_processing_bind.images[0] = color_img, render.rs:337
Rebind(bind, color_img) == [bind EXCEPT !.images[1] = color_img]

\* pub fn resize(&mut self, ctx, width, height), render.rs:332-338: the new
\* pass is made first, then the old one is deleted and replaced, and the
\* post-processing input is pointed at the new colour texture; the function
\* returns unit whatever the driver did, one of outcomes
ResizeOn(outcomes) ==
    /\ ~panicked
    /\ Len(ctx.passes) <= MaxResizes
    /\ \E size \in ScreenSizes, allocated \in outcomes :
          LET t == CreateOffscreenPass(ctx, size[1], size[2])
          IN  /\ ctx' = PassDelete(Allocation(t.ctx, t.offscreen_pass, allocated),
                                   offscreen_pass)
              /\ offscreen_pass' = t.offscreen_pass
              /\ post_processing_bind' = Rebind(post_processing_bind, t.color_img)
              /\ call' = Call("resize", -1, size, "ok",
                              <<[cmd |-> "create_offscreen_pass", pass |-> t.offscreen_pass],
                                [cmd |-> "delete", pass |-> offscreen_pass]>>)
    /\ UNCHANGED <<draw_calls, missing_bindings, issued, panicked, svg, font, font_instance, builder>>
    /\ UNCHANGED pathVars

\* resize on a driver that has the memory for the new textures
Resize == ResizeOn({TRUE})

\* resize on a driver that may have run out of memory
ResizeLowMemory == ResizeOn(BOOLEAN)

-----------------------------------------------------------------------------
(* Font and FontInstance, text.rs:8-110 *)

\* const HEIGHT: f32 = 100.0
HEIGHT == 100

\* the characters a glyph request names, and the characters of a text
FontChars == {"a", "b"}
TextChars == FontChars \cup {" "}

\* what the TtfFont answers for one character: whether glyph_index finds a
\* glyph, whether outline_glyph finds an outline, what the fill tessellator
\* of upload_path makes of that outline, glyph_hor_advance and
\* glyph_hor_side_bearing (in font units)
FontGlyphs ==
    LET tri == [ok |-> TRUE, geometry |-> [vertices |-> <<1, 2, 3>>, indices |-> <<0, 1, 2>>]]
        quad == [ok |-> TRUE, geometry |-> [vertices |-> <<1, 2, 3, 4>>,
                                            indices |-> <<0, 1, 2, 0, 2, 3>>]]
        fails == [ok |-> FALSE, geometry |-> [vertices |-> <<>>, indices |-> <<>>]]
    IN  {[index |-> FALSE, outline |-> FALSE, tess |-> fails, advance |-> None, bearing |-> None],
         [index |-> TRUE, outline |-> FALSE, tess |-> fails, advance |-> Some(3), bearing |-> None],
         [index |-> TRUE, outline |-> TRUE, tess |-> fails, advance |-> Some(3), bearing |-> Some(1)],
         [index |-> TRUE, outline |-> TRUE, tess |-> tri, advance |-> None, bearing |-> Some(1)],
         [index |-> TRUE, outline |-> TRUE, tess |-> tri, advance |-> Some(3), bearing |-> Some(1)],
         [index |-> TRUE, outline |-> TRUE, tess |-> quad, advance |-> Some(5), bearing |-> None]}

\* the fonts: x_height() and height() in font units and the glyph answers
Fonts ==
    {[x_height |-> h, height |-> 100, glyphs |-> g] :
        h \in {None, Some(50)}, g \in [FontChars -> FontGlyphs]}

\* let scale = HEIGHT / height as f32, text.rs:29-30
FontScale(f) == HEIGHT \div (IF f.x_height # None THEN f.x_height[1] ELSE f.height)

\* HashMap::new(), and meshes.insert(ch, glyph)
EmptyMap == [ch \in {} |-> 0]
MapInsert(m, ch, glyph) ==
    [c \in DOMAIN m \cup {ch} |-> IF c = ch THEN glyph ELSE m[c]]

RECURSIVE UploadChars(_, _, _, _, _)
\* for ch in chars { ... }, text.rs:33-56, from character i on with the table
\* dcs and the map meshes so far, on font f; upload_glyph (text.rs:65-74)
\* hands the outline to render.upload_path, which pushes a DrawCall or
\* panics.  Yields the result, the table and the map.
UploadChars(f, chars, i, dcs, meshes) ==
    IF i > Len(chars) THEN [result |-> "ok", draw_calls |-> dcs, meshes |-> meshes]
    ELSE LET ch == chars[i]
             g == f.glyphs[ch]
             pushed == PushDrawCall(dcs, NewDrawCall(g.tess.geometry))
             glyph == [mesh |-> NewMesh(pushed),
                       advance |-> g.advance[1] * FontScale(f),
                       side_bearing |-> (IF g.bearing # None THEN g.bearing[1] ELSE 0)
                                        * FontScale(f)]
         IN  IF ~g.index                       \* "Glyph not found"
             THEN [result |-> "err", draw_calls |-> dcs, meshes |-> meshes]
             ELSE IF ~g.outline                \* "Could not build outline of glyph"
             THEN [result |-> "err", draw_calls |-> dcs, meshes |-> meshes]
             ELSE IF ~g.tess.ok                \* .unwrap() of upload_path
             THEN [result |-> "panic", draw_calls |-> dcs, meshes |-> meshes]
             ELSE IF g.advance = None          \* "Font is missing horizontal advance"
             THEN [result |-> "err", draw_calls |-> pushed, meshes |-> meshes]
             ELSE UploadChars(f, chars, i + 1, pushed, MapInsert(meshes, ch, glyph))

\* pub fn upload(mut self, render, chars) -> Result<FontInstance>,
\* text.rs:25-62; the Font is moved into the call
FontUpload ==
    /\ ~panicked
    /\ font # None
    /\ \E chars \in SeqsUpTo(FontChars, MaxChars) :
          LET r == UploadChars(font[1], chars, 1, draw_calls, EmptyMap)
              added == Len(r.draw_calls) - Len(draw_calls)
          IN  /\ draw_calls' = r.draw_calls
              /\ missing_bindings' = (missing_bindings \/ added > 0)
              /\ issued' = issued \o [k \in 1..added |-> Len(draw_calls) + k - 1]
              /\ panicked' = (r.result = "panic")
              /\ font_instance' = IF r.result = "ok"
                                  THEN Some([meshes |-> r.meshes, space_width |-> 1 * HEIGHT])
                                  ELSE None
              /\ call' = Call("Font::upload", -1, chars, r.result, <<>>)
    /\ font' = None
    /\ UNCHANGED <<targetVars, ctx, svg, builder>>
    /\ UNCHANGED pathVars

\* the x and y a text is laid out from
TextX == 10
TextY == 7

\* a layout that never moves the cursor
TextFromOrigin(fi, text, i, letter_x, y) ==
    LET mapped == SelectSeq(text, LAMBDA ch : ch \in DOMAIN fi.meshes)
    IN  [k \in 1..Len(mapped) |->
            [instance |-> InstanceNew(letter_x + fi.meshes[mapped[k]].side_bearing, y),
             mesh |-> fi.meshes[mapped[k]].mesh]]

RECURSIVE TextFrom(_, _, _, _, _)
\* for ch in text.chars() { ... }, text.rs:97-107, from character i on with
\* the cursor at letter_x: the (Instance, Mesh) pairs pushed
TextFrom(fi, text, i, letter_x, y) ==
    IF i > Len(text) THEN <<>>
    ELSE IF text[i] \in DOMAIN fi.meshes
    THEN LET glyph == fi.meshes[text[i]]
         IN  <<[instance |-> InstanceNew(letter_x + glyph.side_bearing, y),
                mesh |-> glyph.mesh]>>
             \o TextFrom(fi, text, i + 1, letter_x + glyph.advance, y)
    ELSE TextFrom(fi, text, i + 1, letter_x + fi.space_width, y)

\* pub fn text(&self, text, x, y) -> Vec<(Instance, Mesh)>, text.rs:92-110
FontInstanceText ==
    /\ ~panicked
    /\ font_instance # None
    /\ \E text \in SeqsUpTo(TextChars, MaxText) :
          call' = Call("FontInstance::text", -1, [text |-> text, x |-> TextX, y |-> TextY],
                       TextFrom(font_instance[1], text, 1, TextX, TextY), <<>>)
    /\ UNCHANGED <<draw_calls, missing_bindings, issued, panicked>>
    /\ UNCHANGED <<targetVars, ctx, svg, font, font_instance, builder>>
    /\ UNCHANGED pathVars

-----------------------------------------------------------------------------
(* GlyphBuilder, text.rs:125-217 *)

\* the scales a GlyphBuilder is made with
GlyphScales == {1, 2}

\* GlyphBuilder::new(scale), text.rs:136-145
GlyphBuilderNew(scale) ==
    [path |-> <<>>, prev |-> Origin, first |-> Origin, scale |-> scale,
     needs_end |-> FALSE, deferred |-> None]

\* Point::new(x * self.scale, -y * self.scale) on the f32 arguments x, y
GlyphPoint(b, x, y) == <<F32(F32(x) * b.scale), 0 - F32(F32(y) * b.scale)>>

\* fn move_to(&mut self, x, y), text.rs:156-173: the Begin of a move_to that
\* cuts an open contour goes to deferred, which nothing reads
GlyphMoveTo(b, x, y) ==
    IF b.needs_end
    THEN [b EXCEPT !.needs_end = FALSE,
                   !.prev = GlyphPoint(b, x, y),
                   !.deferred = Some(Begin(GlyphPoint(b, x, y))),
                   !.first = GlyphPoint(b, x, y),
                   !.path = Append(@, End(b.prev, b.first, FALSE))]
    ELSE [b EXCEPT !.first = GlyphPoint(b, x, y),
                   !.path = Append(@, Begin(GlyphPoint(b, x, y)))]

\* fn line_to(&mut self, x, y), text.rs:175-183
GlyphLineTo(b, x, y) ==
    [b EXCEPT !.needs_end = TRUE,
              !.prev = GlyphPoint(b, x, y),
              !.path = Append(@, Line(b.prev, GlyphPoint(b, x, y)))]

\* fn curve_to(&mut self, x1, y1, x2, y2, x, y), text.rs:196-206
GlyphCurveTo(b, x1, y1, x2, y2, x, y) ==
    [b EXCEPT !.needs_end = TRUE,
              !.prev = GlyphPoint(b, x, y),
              !.path = Append(@, Cubic(b.prev, GlyphPoint(b, x1, y1),
                                       GlyphPoint(b, x2, y2), GlyphPoint(b, x, y)))]

\* fn close(&mut self), text.rs:208-216
GlyphClose(b) ==
    [b EXCEPT !.needs_end = FALSE,
              !.prev = b.first,
              !.path = Append(@, End(b.first, b.first, TRUE))]

\* the callback of the OutlineBuilder that answers segment s
GlyphCallback(b, s) ==
    CASE s.type = "MoveTo" -> GlyphMoveTo(b, s.x, s.y)
      [] s.type = "LineTo" -> GlyphLineTo(b, s.x, s.y)
      [] s.type = "CurveTo" -> GlyphCurveTo(b, s.x1, s.y1, s.x2, s.y2, s.x, s.y)
      [] s.type = "ClosePath" -> GlyphClose(b)

RECURSIVE OutlineGlyph(_, _, _)
\* self.font.outline_glyph(glyph, &mut builder), text.rs:68-70, for an
\* outline that is the segments p from the i-th on: the callbacks in order
OutlineGlyph(b, p, i) ==
    IF i > Len(p) THEN b ELSE OutlineGlyph(GlyphCallback(b, p[i]), p, i + 1)

\* let mut builder = GlyphBuilder::new(scale); outline_glyph(..), text.rs:66-70,
\* on the segments that convert_path was given; the two conversions do not
\* touch each other, the outline is built once the stream is drained
GlyphOutline ==
    /\ ~panicked
    /\ done
    /\ builder = None
    /\ \E scale \in GlyphScales :
          /\ builder' = Some(OutlineGlyph(GlyphBuilderNew(scale), path, 1))
          /\ call' = Call("outline_glyph", -1, scale, "ok", <<>>)
    /\ UNCHANGED <<draw_calls, missing_bindings, issued, panicked>>
    /\ UNCHANGED <<targetVars, ctx, svg, font, font_instance>>
    /\ UNCHANGED pathVars

\* pub fn path(self) -> Vec<PathEvent>, text.rs:148-152: assert!(!self.needs_end)
GlyphBuilderPath ==
    /\ ~panicked
    /\ builder # None
    /\ IF builder[1].needs_end
       THEN Panic("GlyphBuilder::path", builder[1].scale)
       ELSE /\ call' = Call("GlyphBuilder::path", -1, builder[1].scale,
                            builder[1].path, <<>>)
            /\ UNCHANGED <<draw_calls, missing_bindings, issued, panicked>>
    /\ builder' = None
    /\ UNCHANGED <<targetVars, ctx, svg, font, font_instance>>
    /\ UNCHANGED pathVars

\* a Render with no path conversion under way
Init ==
    /\ convert_path(<<>>)
    /\ RenderNew
    /\ svg = None
    /\ font = None
    /\ font_instance = None
    /\ builder = None

Next ==
    \/ UploadPath
    \/ UploadSvg
    \/ SetInstances
    \/ Update
    \/ RenderFrame

Spec == Init /\ [][Next]_vars

\* a Render whose window is resized between frames; its instances come from
\* set_instances
NextResize ==
    \/ UploadPath
    \/ SetInstances
    \/ RenderFrame
    \/ Resize

SpecResize == Init /\ [][NextResize]_vars

\* a Render under every operation that takes a Mesh or runs between two
\* uses of one
NextMesh ==
    \/ UploadPath
    \/ SetInstancesFit
    \/ UpdateFit
    \/ RenderFrame
    \/ Resize

SpecMesh == Init /\ [][NextMesh]_vars

\* a Render whose instances come from the world, frame after frame, and
\* from set_instances
NextWorld ==
    \/ UploadPath
    \/ SetInstances
    \/ UpdateWorld
    \/ RenderFrame

SpecWorld == Init /\ [][NextWorld]_vars

\* a Render whose instances come from set_instances, with the contents of
\* the streaming buffers
NextStream ==
    \/ UploadPath
    \/ SetInstances
    \/ RenderStream

SpecStream == Init /\ [][NextStream]_vars

\* the same on a driver whose texture allocations may fail
NextLowMemory ==
    \/ UploadPath
    \/ RenderFrame
    \/ ResizeLowMemory

SpecLowMemory == Init /\ [][NextLowMemory]_vars

\* a Render handed one SVG document, by upload_svg and by Svg::upload
InitSvg ==
    /\ convert_path(<<>>)
    /\ RenderNew
    /\ svg \in AllSvgDocs
    /\ font = None
    /\ font_instance = None
    /\ builder = None

NextSvg ==
    \/ UploadSvgDoc
    \/ SvgUpload

SpecSvg == InitSvg /\ [][NextSvg]_vars

\* a Render and a Font: the glyphs of a request are uploaded, then texts are
\* laid out with the FontInstance
InitFont ==
    /\ convert_path(<<>>)
    /\ RenderNew
    /\ svg = None
    /\ font \in {Some(f) : f \in Fonts}
    /\ font_instance = None
    /\ builder = None

NextFont ==
    \/ FontUpload
    \/ FontInstanceText

SpecFont == InitFont /\ [][NextFont]_vars

\* the segments of a path go through PathConvIter and, as the outline of a
\* glyph, through a GlyphBuilder
NextGlyph ==
    \/ PathConvIterNext
    \/ GlyphOutline
    \/ GlyphBuilderPath

SpecGlyph == InitPath /\ [][NextGlyph]_vars

-----------------------------------------------------------------------------
(* Properties of the event stream (SpecPath) *)

CountOf(t) == Cardinality({i \in 1..Len(events) : events[i].type = t})

\* Begin events minus End events among the first k events
OpenDepth(k) ==
    Cardinality({i \in 1..k : events[i].type = "Begin"})
    - Cardinality({i \in 1..k : events[i].type = "End"})

IsDrawing(e) == e.type \in {"Line", "Quadratic", "Cubic"}

StartsWithMoveTo == Len(path) > 0 /\ path[1].type = "MoveTo"

\* C1: for every segment sequence that starts with MoveTo, the fully drained
\* event stream holds as many Begin events as End events.
C1_BeginEndBalanced ==
    (done /\ StartsWithMoveTo) => CountOf("Begin") = CountOf("End")

\* C2: in the event stream (of a sequence that starts with MoveTo) Begin and
\* End strictly alternate starting with Begin, every Begin has its End before
\* the next Begin or the end of the stream, and no Line/Quadratic/Cubic is
\* emitted outside an open Begin...End pair.
C2_BeginEndAlternate ==
    StartsWithMoveTo =>
        /\ \A k \in 0..Len(events) : OpenDepth(k) \in {0, 1}
        /\ \A i \in 1..Len(events) : IsDrawing(events[i]) => OpenDepth(i - 1) = 1
        /\ done => OpenDepth(Len(events)) = 0

\* C3: every End event has close = TRUE exactly when the ClosePath arm built
\* it; an End built because a MoveTo interrupted an open subpath or because
\* the segments were exhausted has close = FALSE.
C3_CloseIffClosePath ==
    \A i \in 1..Len(events) :
        events[i].type = "End" =>
            /\ events[i].close <=> (cause[i] = "ClosePath")
            /\ cause[i] \in {"MoveTo", "None"} => ~events[i].close

\* the drained stream of a sequence that starts with MoveTo, holding an End
\* built by ClosePath and an End built at exhaustion
C3_Witness ==
    /\ done
    /\ StartsWithMoveTo
    /\ \E i, k \in 1..Len(events) :
          /\ events[i].type = "End" /\ cause[i] = "ClosePath" /\ events[i].close
          /\ events[k].type = "End" /\ cause[k] = "None" /\ ~events[k].close

\* C4: [MoveTo(p), LineTo(q)] with no ClosePath yields exactly
\* [Begin(at = p), Line(from = p, to = q), End(close = false)], then the end
\* of the stream.
C4_MoveLineEvents ==
    (done /\ Len(path) = 2 /\ path[1].type = "MoveTo" /\ path[2].type = "LineTo") =>
        LET p == point(path[1].x, path[1].y)
            q == point(path[2].x, path[2].y)
        IN  /\ Len(events) = 3
            /\ events[1] = Begin(p)
            /\ events[2] = Line(p, q)
            /\ events[3].type = "End" /\ ~events[3].close

\* C5: two consecutive MoveTo segments yield, for the abandoned one-point
\* subpath, its Begin immediately followed by End(close = false); the
\* sequence [MoveTo, MoveTo] yields exactly
\* [Begin, End(close = false), Begin, End(close = false)].
C5_ConsecutiveMoveTo ==
    done =>
        /\ \A i \in 1..(Len(path) - 1) :
              (path[i].type = "MoveTo" /\ path[i + 1].type = "MoveTo") =>
                  \E j \in 1..(Len(events) - 1) :
                      /\ events[j] = Begin(point(path[i].x, path[i].y))
                      /\ events[j + 1].type = "End" /\ ~events[j + 1].close
        /\ (Len(path) = 2 /\ path[1].type = "MoveTo" /\ path[2].type = "MoveTo") =>
              /\ Len(events) = 4
              /\ events[1] = Begin(point(path[1].x, path[1].y))
              /\ events[2].type = "End" /\ ~events[2].close
              /\ events[3] = Begin(point(path[2].x, path[2].y))
              /\ events[4].type = "End" /\ ~events[4].close

\* a segment sequence with a drawing segment or a ClosePath before any MoveTo
Malformed == Len(path) > 0 /\ path[1].type # "MoveTo"

\* C17: a malformed segment sequence, in which a drawing segment (LineTo,
\* CurveTo, QuadTo) or ClosePath occurs before any MoveTo, is rejected: no
\* event comes out of it to be tessellated.
C17_MalformedRejected == Malformed => events = <<>>

-----------------------------------------------------------------------------
(* Properties of the draw call table (Spec) *)

UploadOps == {"upload_path", "upload_svg"}

\* the DrawCall a Mesh handle refers to
DrawCallOf(mesh) == draw_calls[mesh + 1]

\* C6, state part: the k-th successful upload returned handle k - 1, and
\* every handle returned refers to a DrawCall of the table
C6_HandlesCount ==
    /\ \A k \in 1..Len(issued) : issued[k] = k - 1
    /\ Len(issued) = Len(draw_calls)

\* C6, step part: no operation removes a DrawCall or moves one to another
\* index (its geometry stays where it is)
C6_TableGrows ==
    /\ Len(draw_calls') >= Len(draw_calls)
    /\ \A i \in 1..Len(draw_calls) :
          /\ draw_calls'[i].vertices = draw_calls[i].vertices
          /\ draw_calls'[i].indices = draw_calls[i].indices
    /\ \A k \in 1..Len(issued) : k <= Len(issued') /\ issued'[k] = issued[k]

\* C6: Mesh handles are strictly increasing in upload-call order across any
\* interleaving of upload_path and upload_svg with the other operations: the
\* k-th successful upload returns handle k - 1, no handle is returned twice,
\* and no operation removes or reorders draw calls.
C6_HandlesIncreasing == []C6_HandlesCount /\ [][C6_TableGrows]_vars

\* a second upload, by upload_svg, after the first DrawCall was given
\* instances and rendered
C6_Witness ==
    /\ call.op = "upload_svg" /\ call.result = "ok" /\ call.mesh = 1
    /\ issued = <<0, 1>>
    /\ draw_calls[1].bindings # None
    /\ draw_calls[1].instances # <<>>

\* C7: set_instances(mesh, list) is a full overwrite: after the call the
\* DrawCall's instance list equals list whatever it held before, and a
\* second call with the same list leaves it equal to that list.
C7_SetInstancesOverwrites ==
    /\ call.op = "set_instances" => DrawCallOf(call.mesh).instances = call.arg
    /\ \A i \in 1..Len(draw_calls) : \A l \in InstLists :
          /\ SetInstancesDc(draw_calls[i], l).instances = l
          /\ SetInstancesDc(SetInstancesDc(draw_calls[i], l), l).instances = l

\* set_instances has just stored a non-empty list in a DrawCall, and
\* storing it once more would change nothing
C7_Witness ==
    /\ call.op = "set_instances"
    /\ call.arg # <<>>
    /\ DrawCallOf(call.mesh).instances = call.arg
    /\ SetInstancesDc(DrawCallOf(call.mesh), call.arg) = DrawCallOf(call.mesh)

\* C8, per step: a set_instances step with at most MAX_MESH_INSTANCES
\* instances succeeds and stores them; with one more it fails with a
\* CapacityError and leaves the DrawCall's instance list and dirty flag as
\* they were
C8_CapacityStep ==
    (call'.op = "set_instances") =>
        IF Len(call'.arg) <= MAX_MESH_INSTANCES
        THEN /\ call'.result = "ok"
             /\ draw_calls'[call'.mesh + 1].instances = call'.arg
        ELSE /\ call'.result = "err"
             /\ draw_calls'[call'.mesh + 1].instances = draw_calls[call'.mesh + 1].instances
             /\ draw_calls'[call'.mesh + 1].refresh_instances
                  = draw_calls[call'.mesh + 1].refresh_instances

\* C8: set_instances with a list of exactly the instance capacity succeeds;
\* with capacity + 1 elements it fails with CapacityError and leaves the
\* DrawCall's prior instance list and dirty flag untouched.
C8_CapacityChecked == [][C8_CapacityStep]_vars

\* C9: in every reachable state the instance list of every DrawCall is no
\* longer than the instance capacity its streaming buffer is sized for, so
\* no instance upload of render hands the buffer more than it holds.
C9_InstancesWithinCapacity ==
    /\ \A i \in 1..Len(draw_calls) :
          Len(draw_calls[i].instances) <= MAX_MESH_INSTANCES
    /\ \A j \in 1..Len(call.cmds) :
          call.cmds[j].cmd = "update" => Len(call.cmds[j].data) <= MAX_MESH_INSTANCES

\* C10, per step: a step that issues a handle appends one DrawCall with an
\* empty instance list, no binding and a cleared dirty flag, sets
\* missing_bindings, returns that DrawCall's handle and leaves the others
C10_UploadStep ==
    (Len(issued') > Len(issued)) =>
        /\ Len(draw_calls') = Len(draw_calls) + 1
        /\ \A i \in 1..Len(draw_calls) : draw_calls'[i] = draw_calls[i]
        /\ draw_calls'[Len(draw_calls')].instances = <<>>
        /\ draw_calls'[Len(draw_calls')].bindings = None
        /\ ~draw_calls'[Len(draw_calls')].refresh_instances
        /\ missing_bindings'
        /\ call'.op \in UploadOps /\ call'.result = "ok"
        /\ call'.mesh + 1 = Len(draw_calls')
        /\ issued' = Append(issued, call'.mesh)

\* C10: each upload appends exactly one new DrawCall that has an empty
\* instance list, no GPU binding and a cleared refresh_instances flag, sets
\* missing_bindings, and returns the handle of that DrawCall; all DrawCalls
\* that existed before are left unchanged.
C10_UploadAppends == [][C10_UploadStep]_vars

\* upload_path has just added a second DrawCall beside a bound, dirty one
C10_Witness ==
    /\ call.op = "upload_path" /\ call.result = "ok" /\ call.mesh = 1
    /\ Len(draw_calls) = 2
    /\ draw_calls[2].instances = <<>> /\ draw_calls[2].bindings = None
    /\ missing_bindings
    /\ draw_calls[1].bindings # None
    /\ draw_calls[1].refresh_instances

-----------------------------------------------------------------------------
(* Properties of the frame (Spec) *)

\* the positions in the command list cmds that hold command c
CmdsAt(cmds, c) == {j \in 1..Len(cmds) : cmds[j].cmd = c}

\* the buffers a DrawCall's binding holds
BuffersOf(dc) ==
    IF dc.bindings = None THEN {}
    ELSE {dc.bindings[1].vertex_buffers[1], dc.bindings[1].vertex_buffers[2],
          dc.bindings[1].index_buffer}

\* C11, per step: a binding that exists is left as it is, buffers and all; a
\* render creates bindings exactly for the DrawCalls that had none, once
\* each, out of three new buffers each; no other step creates a binding
C11_BindingStep ==
    /\ \A i \in 1..Len(draw_calls) :
          draw_calls[i].bindings # None =>
              draw_calls'[i].bindings = draw_calls[i].bindings
    /\ \A i \in 1..Len(draw_calls') :
          (draw_calls'[i].bindings # None /\ (i > Len(draw_calls) \/ draw_calls[i].bindings = None)) =>
              /\ call'.op = "render"
              /\ Cardinality({j \in CmdsAt(call'.cmds, "create_bindings") :
                                 call'.cmds[j].mesh = i - 1}) = 1
              /\ \A b \in BuffersOf(draw_calls'[i]) : ctx.buffers < b /\ b <= ctx'.buffers
    /\ call'.op = "render" =>
          \A j \in CmdsAt(call'.cmds, "create_bindings") :
              draw_calls[call'.cmds[j].mesh + 1].bindings = None
    /\ ctx'.buffers - ctx.buffers
          = 3 * Cardinality({i \in 1..Len(draw_calls') :
                               /\ draw_calls'[i].bindings # None
                               /\ (i > Len(draw_calls) \/ draw_calls[i].bindings = None)})

\* C11: over any sequence of uploads and render calls the GPU binding of
\* each DrawCall is created at most once: a render that follows a new
\* upload creates bindings only for the DrawCalls that lack one and never
\* recreates or replaces an existing binding.
C11_BindingsCreatedOnce == [][C11_BindingStep]_vars

\* a render after a second upload has created the binding of the new
\* DrawCall and left the first DrawCall with the buffers of its first frame
C11_Witness ==
    /\ call.op = "render" /\ call.result = "ok"
    /\ Len(draw_calls) = 2
    /\ {call.cmds[j].mesh : j \in CmdsAt(call.cmds, "create_bindings")} = {1}
    /\ BuffersOf(draw_calls[1]) = {3, 4, 5}
    /\ BuffersOf(draw_calls[2]) = {6, 7, 8}

\* the draw commands of the last call for the DrawCall at index i
DrawsOf(i) == {j \in CmdsAt(call.cmds, "draw") : call.cmds[j].mesh = i - 1}

\* C12: in one render call the offscreen pass issues exactly one instanced
\* draw for each DrawCall whose instance list is non-empty, with element
\* count equal to the length of its index buffer and instance count equal to
\* the length of its instance list, and issues no draw and raises no error
\* for a DrawCall whose instance list is empty.
C12_OneDrawPerDrawCall ==
    call.op = "render" =>
        /\ \A i \in 1..Len(draw_calls) :
              IF draw_calls[i].instances # <<>>
              THEN /\ Cardinality(DrawsOf(i)) = 1
                   /\ \A j \in DrawsOf(i) :
                         /\ call.cmds[j].elements = Len(draw_calls[i].indices)
                         /\ call.cmds[j].instances = Len(draw_calls[i].instances)
              ELSE DrawsOf(i) = {}
        /\ (\A i \in 1..Len(draw_calls) : draw_calls[i].instances = <<>>) =>
              call.result = "ok"

\* C13: every render call runs the post-process pass exactly once (one draw
\* of the 6-index full-screen quad with one instance), also when the table
\* has no DrawCalls or every instance list is empty.
C13_PostProcessOnce ==
    call.op = "render" =>
        /\ Cardinality(CmdsAt(call.cmds, "draw_post")) = 1
        /\ \A j \in CmdsAt(call.cmds, "draw_post") :
              call.cmds[j].elements = 6 /\ call.cmds[j].instances = 1

\* C14: every render call passes through the stages in the order
\* BindingSync, OffscreenPass, PostProcessPass, Present: all binding creation
\* and all instance-buffer uploads of the frame come before the offscreen
\* pass is begun, the offscreen pass (with all its draws) is ended before
\* the post-process pass begins, and the frame commit is the last step.
C14_StagesInOrder ==
    call.op = "render" =>
        \E b, e, d, p, q \in 1..Len(call.cmds) :
            /\ CmdsAt(call.cmds, "begin_pass") = {b}
            /\ CmdsAt(call.cmds, "end_render_pass") = {e, q}
            /\ CmdsAt(call.cmds, "begin_default_pass") = {d}
            /\ CmdsAt(call.cmds, "draw_post") = {p}
            /\ CmdsAt(call.cmds, "commit_frame") = {Len(call.cmds)}
            /\ b < e /\ e < d /\ d < p /\ p < q /\ q < Len(call.cmds)
            /\ \A j \in CmdsAt(call.cmds, "create_bindings") \cup CmdsAt(call.cmds, "update") :
                  j < b
            /\ \A j \in CmdsAt(call.cmds, "draw") : b < j /\ j < e

\* C15: once a render call begins it always reaches Present: for every
\* reachable table state render terminates without panicking and commits
\* exactly one frame.
C15_RenderReachesPresent ==
    call.op = "render" =>
        /\ call.result = "ok"
        /\ ~panicked
        /\ Cardinality(CmdsAt(call.cmds, "commit_frame")) = 1

-----------------------------------------------------------------------------
(* Properties of the render target (SpecResize) *)

\* the passes of context c that have not been deleted
LivePasses(c) == {p \in 1..Len(c.passes) : c.passes[p].deleted = 0}

\* C16, per step: a resize deletes the pass that was current, once, makes
\* one new pass over two new textures of the requested size and makes it
\* current; no other step makes, deletes or replaces a pass
C16_ResizeStep ==
    IF call'.op = "resize"
    THEN /\ ctx.passes[offscreen_pass].deleted = 0
         /\ ctx'.passes[offscreen_pass].deleted = 1
         /\ Len(ctx'.passes) = Len(ctx.passes) + 1
         /\ \A p \in 1..Len(ctx.passes) :
               p # offscreen_pass => ctx'.passes[p] = ctx.passes[p]
         /\ ctx'.textures = ctx.textures + 2
         /\ offscreen_pass' = Len(ctx'.passes)
         /\ LET new == ctx'.passes[offscreen_pass']
            IN  /\ <<new.width, new.height>> = call'.arg
                /\ new.deleted = 0
                /\ {new.color_img, new.depth_img} = {ctx.textures + 1, ctx.textures + 2}
    ELSE /\ ctx'.passes = ctx.passes
         /\ ctx'.textures = ctx.textures
         /\ offscreen_pass' = offscreen_pass

\* C16, in every state: exactly one pass is live, it is the current one, of
\* the initial screen size if no resize has happened, no pass was deleted
\* twice, the post-processing input is the live colour texture, and a
\* render has drawn into the live pass and sampled its colour texture
C16_OneLiveTarget ==
    /\ LivePasses(ctx) = {offscreen_pass}
    /\ \A p \in 1..Len(ctx.passes) : ctx.passes[p].deleted <= 1
    /\ Len(ctx.passes) = 1 =>
          <<ctx.passes[1].width, ctx.passes[1].height>> = InitialScreenSize
    /\ post_processing_bind.images = <<ctx.passes[offscreen_pass].color_img>>
    /\ (call.op = "render" /\ call.result = "ok") =>
          /\ \A j \in CmdsAt(call.cmds, "begin_pass") :
                call.cmds[j].pass = offscreen_pass
          /\ \A j \in CmdsAt(call.cmds, "draw_post") :
                call.cmds[j].images = <<ctx.passes[offscreen_pass].color_img>>

-----------------------------------------------------------------------------
(* Properties of the uploads' failures (Spec) and of documents (SpecSvg) *)

\* the call recorded in c was an upload that met a fill the tessellator
\* failed on
FillFailed(c) ==
    \/ c.op = "upload_path" /\ ~c.arg.ok
    \/ /\ c.op = "upload_svg"
       /\ c.arg.parsed
       /\ TessNodes(c.arg.nodes, 1, NoGeometry, "fill").result = "fill"

\* C18, per step: an upload that meets a fill tessellation failure returns
\* an error, does not panic, and leaves the table, the handles issued and
\* missing_bindings as they were
C18_FillFailureStep ==
    FillFailed(call') =>
        /\ call'.result = "err"
        /\ ~panicked'
        /\ draw_calls' = draw_calls
        /\ issued' = issued
        /\ missing_bindings' = missing_bindings

\* C18: a fill tessellation failure makes the upload call fail with an
\* explicit error result (not a panic), and the failed call appends no
\* DrawCall, issues no Mesh handle and does not set missing_bindings.
C18_FillFailureIsError == [][C18_FillFailureStep]_vars

IsPath(n) == n.kind = "Path"

\* a document that parses, whose paints are plain colours and whose fills
\* all tessellate
Uploadable(d) ==
    /\ d.parsed
    /\ \A i \in 1..Len(d.nodes) :
          IsPath(d.nodes[i]) =>
              /\ d.nodes[i].fill \in {None, Some([paint |-> "Color", tess |-> "ok"])}
              /\ d.nodes[i].stroke # None => d.nodes[i].stroke[1].paint = "Color"

\* the paths of d whose stroke fails to tessellate
FailedStrokes(d) ==
    {i \in 1..Len(d.nodes) :
        /\ IsPath(d.nodes[i])
        /\ d.nodes[i].stroke # None
        /\ d.nodes[i].stroke[1].tess # "ok"}

RECURSIVE KeptVertices(_, _)
\* the vertices of the fills of all paths and of the strokes that
\* tessellate, in document order, from node i on
KeptVertices(d, i) ==
    IF i > Len(d.nodes) THEN <<>>
    ELSE (IF IsPath(d.nodes[i]) /\ d.nodes[i].fill # None THEN FillPiece(i) ELSE <<>>)
         \o (IF IsPath(d.nodes[i]) /\ d.nodes[i].stroke # None /\ i \notin FailedStrokes(d)
              THEN StrokePiece(i) ELSE <<>>)
         \o KeptVertices(d, i + 1)

\* C19: a stroke tessellation failure is recoverable: the upload of a
\* document with a failing stroke (and nothing else wrong) succeeds and
\* returns a Mesh whose buffers hold the fill of that path and the fills and
\* strokes of all other paths, with the failed stroke left out; every index
\* refers to a vertex of the buffers.
C19_StrokeFailureRecoverable ==
    (call.op # "new" /\ Uploadable(svg) /\ FailedStrokes(svg) # {}) =>
        /\ call.result = "ok"
        /\ call.op \in {"upload_svg", "Svg::upload"}
        /\ LET dc == DrawCallOf(call.mesh)
           IN  /\ dc.vertices = KeptVertices(svg, 1)
               /\ \A i \in FailedStrokes(svg) :
                     \A j \in 1..Len(dc.vertices) :
                         \A k \in 1..Len(StrokePiece(i)) : dc.vertices[j] # StrokePiece(i)[k]
               /\ \A j \in 1..Len(dc.indices) :
                     0 <= dc.indices[j] /\ dc.indices[j] < Len(dc.vertices)

\* a document of two filled and stroked paths, the stroke of the first
\* failing, has been uploaded: the Mesh holds both fills and the second
\* stroke
C19_Witness ==
    /\ call.result = "ok"
    /\ call.op = "upload_svg"
    /\ Uploadable(svg)
    /\ FailedStrokes(svg) = {1}
    /\ DrawCallOf(call.mesh).vertices = FillPiece(1) \o FillPiece(2) \o StrokePiece(2)

\* C20, per step: an upload of the document that returns a Mesh has appended
\* exactly one DrawCall and returned its handle, one that fails has appended
\* none; and the document is uploaded whenever it parses, its paints are
\* plain colours and its fills tessellate, however many nodes it has
C20_DocumentStep ==
    /\ Uploadable(svg) => call'.result = "ok"
    /\ IF call'.result = "ok"
       THEN /\ Len(draw_calls') = Len(draw_calls) + 1
            /\ \A i \in 1..Len(draw_calls) : draw_calls'[i] = draw_calls[i]
            /\ issued' = Append(issued, call'.mesh)
            /\ call'.mesh = Len(draw_calls') - 1
       ELSE draw_calls' = draw_calls /\ issued' = issued

\* C20: uploading one vector document appends exactly one DrawCall and
\* returns exactly one Mesh, independent of how many path nodes, fills and
\* strokes the document contains (including zero).
C20_OneDrawCallPerDocument == [][C20_DocumentStep]_vars

\* a document of two paths, each filled and stroked, has been uploaded by
\* Svg::upload after a document upload: the table went from one DrawCall to two
C20_Witness ==
    /\ call.result = "ok"
    /\ call.op = "Svg::upload"
    /\ Len(svg.nodes) = 2
    /\ \A i \in 1..2 :
          /\ IsPath(svg.nodes[i])
          /\ svg.nodes[i].fill # None
          /\ svg.nodes[i].stroke # None /\ svg.nodes[i].stroke[1].tess = "ok"
    /\ Len(draw_calls) = 2
    /\ call.mesh = 1
    /\ Len(draw_calls[2].vertices) = 14



-----------------------------------------------------------------------------
(* Glyph requests and text layout *)

\* the positions of text whose character has a glyph in the FontInstance
MappedAt(fi, text) == {i \in 1..Len(text) : text[i] \in DOMAIN fi.meshes}

\* the position of the k-th mapped character of text
NthMapped(fi, text, k) ==
    CHOOSE i \in MappedAt(fi, text) :
        Cardinality({j \in MappedAt(fi, text) : j <= i}) = k

RECURSIVE WidthBefore(_, _, _)
\* the sum, over the characters before position i, of the glyph advance of
\* a mapped character and the fallback width of any other
WidthBefore(fi, text, i) ==
    IF i <= 1 THEN 0
    ELSE WidthBefore(fi, text, i - 1)
         + (IF text[i - 1] \in DOMAIN fi.meshes
            THEN fi.meshes[text[i - 1]].advance ELSE fi.space_width)

\* the layout the claims describe: one pair per mapped character, in
\* string order, none for any other character
LaidOut(fi, arg, out) ==
    /\ Len(out) = Cardinality(MappedAt(fi, arg.text))
    /\ \A k \in 1..Len(out) :
          LET i == NthMapped(fi, arg.text, k)
              glyph == fi.meshes[arg.text[i]]
          IN  /\ out[k].mesh = glyph.mesh
              /\ out[k].instance
                    = InstanceNew(arg.x + WidthBefore(fi, arg.text, i) + glyph.side_bearing,
                                  arg.y)

\* C21: a glyph request whose characters include one the font does not
\* cover returns an error and does not panic, and a layout of a string
\* holding a character with no uploaded glyph emits no pair for it and
\* moves the cursor on by the fallback width
C21_AbsentCharStep ==
    /\ (/\ font # None
        /\ font' = None
        /\ \E i \in DOMAIN call'.arg : ~font[1].glyphs[call'.arg[i]].index)
       => (call'.result = "err" /\ ~panicked')
    /\ (/\ font_instance' # None
        /\ call'.op = "FontInstance::text"
        /\ \E i \in DOMAIN call'.arg.text :
              call'.arg.text[i] \notin DOMAIN font_instance'[1].meshes)
       => (/\ LaidOut(font_instance'[1], call'.arg, call'.result)
           /\ font_instance'[1].space_width = HEIGHT)

C21_AbsentCharIsError == [][C21_AbsentCharStep]_vars

-----------------------------------------------------------------------------
(* Resize on a driver that runs out of memory (SpecLowMemory) *)

\* C23: a resize whose new render target could not be allocated reports an
\* error, and no render draws into a target that was not allocated or was
\* deleted
C23_ResizeFailureReported ==
    /\ (call.op = "resize" /\ ~ctx.passes[offscreen_pass].allocated)
          => call.result = "err"
    /\ call.op = "render" =>
          \A j \in CmdsAt(call.cmds, "begin_pass") :
              /\ ctx.passes[call.cmds[j].pass].allocated
              /\ ctx.passes[call.cmds[j].pass].deleted = 0

-----------------------------------------------------------------------------
(* Instances from the world (SpecWorld) *)

\* C25: a mesh whose instance list was empty when a frame was rendered and
\* that has tagged entities in the world afterwards gets exactly their
\* instances from the next update: an empty list in one frame does not keep
\* update from replacing the list
C25_UpdateStep ==
    (call.op = "render" /\ call.result = "ok" /\ call'.op = "update")
        => \A i \in 1..Len(draw_calls) :
              (draw_calls[i].instances = <<>> /\ Query(call'.arg, i - 1) # <<>>)
                  => draw_calls'[i].instances = Query(call'.arg, i - 1)

C25_EmptyListIsReplaced == [][C25_UpdateStep]_vars

-----------------------------------------------------------------------------
(* The dirty flag and the instance buffer (Spec) *)

C26_NoDirtyDrawnAfterRender ==
    (call.op = "render" /\ call.result = "ok")
        => \A i \in 1..Len(draw_calls) :
              draw_calls[i].instances # <<>> => ~draw_calls[i].refresh_instances

\* a render that follows a render with no call in between uploads no
\* instances
C26_SecondRenderStep ==
    (/\ call.op = "render" /\ call.result = "ok"
     /\ call'.op = "render" /\ call'.result = "ok")
        => CmdsAt(call'.cmds, "update") = {}

Uploaded(dc) ==
    IF dc.bindings # None /\ StreamBuffer(dc) \in DOMAIN ctx.data
    THEN ctx.data[StreamBuffer(dc)] ELSE <<>>

\* the two halves of C27 on one DrawCall
InSync(i) ==
    /\ (call.op = "render" /\ call.result = "ok"
        /\ \E j \in CmdsAt(call.cmds, "draw") : call.cmds[j].mesh = i - 1)
          => Uploaded(draw_calls[i]) = draw_calls[i].instances
    /\ Uploaded(draw_calls[i]) # draw_calls[i].instances
          => draw_calls[i].refresh_instances

\* C27: at every instanced draw issued by render the DrawCall's instance
\* buffer holds its current instance list, and in every state a DrawCall
\* whose list differs from what was last uploaded has refresh_instances set
C27_BufferMatchesList == \A i \in 1..Len(draw_calls) : InSync(i)

\* C28, in every state: with missing_bindings false no DrawCall lacks a
\* binding
C28_AllBound ==
    ~missing_bindings => \A i \in 1..Len(draw_calls) : draw_calls[i].bindings # None

\* C28, per step: a render reaches its draw loop with a binding on every
\* DrawCall, so that no unwrap of a binding fails
C28_UnwrapStep ==
    (call'.op = "render" /\ (call' # call \/ panicked' # panicked))
        => LET bound == EnsureBindings(draw_calls, missing_bindings)
           IN  \A i \in 1..Len(bound) : bound[i].bindings # None /\ ~UnwrapPanics(bound[i])

\* C28: whenever render reaches the draw loop every DrawCall has a binding:
\* in every reachable state missing_bindings = false implies that no
\* DrawCall lacks a binding, and the unwrap of a binding in render never
\* fails, whatever the order of uploads, set_instances, update and render
C28_BindingsBeforeDraw == []C28_AllBound /\ [][C28_UnwrapStep]_vars

\* a frame that made the bindings of a DrawCall which already had
\* instances and drew it, next to a DrawCall bound by an earlier frame
C28_Witness ==
    /\ call.op = "render" /\ call.result = "ok"
    /\ ~missing_bindings
    /\ Len(draw_calls) = 2
    /\ CmdsAt(call.cmds, "create_bindings") = {1}
    /\ call.cmds[1].mesh = 1
    /\ \E j \in CmdsAt(call.cmds, "draw") : call.cmds[j].mesh = 1

-----------------------------------------------------------------------------
(* The deferred Begin and the continuity of the events (SpecPath) *)

RECURSIVE SubpathStart(_, _)
\* the point of the last MoveTo among the first i segments of p, the origin
\* if there is none
SubpathStart(p, i) ==
    IF i = 0 THEN Origin
    ELSE IF p[i].type = "MoveTo" THEN point(p[i].x, p[i].y)
    ELSE SubpathStart(p, i - 1)

\* C29, per pull: a MoveTo met while needs_end is set yields End(last = the
\* end point of the segment before it, first = the start of the subpath it
\* interrupts, close = false) and leaves Begin(at = its point) pending; a
\* pull with an event pending yields that event, consumes no segment and
\* leaves nothing pending
C29_PullStep ==
    /\ (deferred = None /\ iter <= Len(path) /\ path[iter].type = "MoveTo" /\ needs_end)
          => /\ path[iter - 1].type \in {"LineTo", "CurveTo"}
             /\ events' = Append(events, End(point(path[iter - 1].x, path[iter - 1].y),
                                             SubpathStart(path, iter - 1), FALSE))
             /\ deferred' = Some(Begin(point(path[iter].x, path[iter].y)))
    /\ deferred # None
          => /\ events' = Append(events, deferred[1])
             /\ iter' = iter
             /\ deferred' = None

\* C29, in every state: an event is pending only right after the End a
\* MoveTo has cut a subpath with, and it is the Begin of that MoveTo
C29_PendingIsBegin ==
    deferred # None
        => /\ iter > 1 /\ path[iter - 1].type = "MoveTo"
           /\ deferred[1] = Begin(point(path[iter - 1].x, path[iter - 1].y))
           /\ events # <<>>
           /\ events[Len(events)].type = "End" /\ ~events[Len(events)].close
           /\ cause[Len(events)] = "MoveTo"

\* C29: a MoveTo that arrives while needs_end is set makes the stream emit
\* End(last = previous current point, first = start of the interrupted
\* subpath, close = false) and, on the very next pull and before any
\* further segment is consumed, Begin(at = the MoveTo point); nothing is
\* pending after that pull
C29_EndThenDeferredBegin == []C29_PendingIsBegin /\ [][C29_PullStep]_vars

\* in a sequence that starts with MoveTo a later MoveTo has cut a subpath
\* that was drawn away from its start: its End and, from the next pull, its
\* Begin are out, nothing is pending
C29_Witness ==
    /\ deferred = None
    /\ path # <<>> /\ path[1].type = "MoveTo"
    /\ \E k \in 1..(Len(events) - 1) :
          /\ cause[k] = "MoveTo" /\ events[k].type = "End"
          /\ events[k].last # events[k].first
          /\ cause[k + 1] = "deferred" /\ events[k + 1].type = "Begin"
          /\ events[k + 1].at # events[k].last

\* C30: every Line and Cubic event starts where the drawing event before it
\* in the same subpath ended, or at the Begin's point when it is the first
\* drawing event of the subpath; the first drawing event after the first
\* MoveTo starts at the MoveTo point, not at the origin
C30_PathContinuity ==
    \A i \in 2..Len(events) :
        events[i].type \in {"Line", "Cubic"} =>
            /\ events[i - 1].type \in {"Line", "Cubic"} => events[i].from = events[i - 1].to
            /\ events[i - 1].type = "Begin" => events[i].from = events[i - 1].at

-----------------------------------------------------------------------------
(* ClosePath and the end of the stream (SpecPath) *)

\* C31, per pull: a ClosePath met after a drawing segment yields
\* End(close = true) with last = the end point of that segment (the current
\* point before the reset) and first = the start of the subpath; afterwards
\* prev equals first and needs_end is cleared
C31_ClosePathStep ==
    (deferred = None /\ iter <= Len(path) /\ path[iter].type = "ClosePath" /\ needs_end)
        => /\ events' = Append(events, End(point(path[iter - 1].x, path[iter - 1].y),
                                           SubpathStart(path, iter - 1), TRUE))
           /\ prev' = first'
           /\ ~needs_end'

C31_ClosePathEnd == [][C31_ClosePathStep]_vars

\* C32, in every state: n segments have yielded at most 2n + 1 events, at
\* most one of them built at exhaustion, and a stream that has returned
\* end-of-stream has nothing left to yield
C32_Bounded ==
    /\ Len(events) <= 2 * Len(path) + 1
    /\ Cardinality({i \in 1..Len(events) : cause[i] = "None"}) <= 1
    /\ done => (deferred = None /\ iter > Len(path) /\ ~needs_end)

\* C32, per pull: exhaustion with needs_end set yields End(close = false)
\* once, and after end-of-stream a pull yields nothing
C32_ExhaustedStep ==
    /\ (deferred = None /\ iter > Len(path) /\ needs_end)
          => /\ events' = Append(events, End(prev, first, FALSE))
             /\ ~needs_end'
             /\ ~done'
    /\ (deferred = None /\ iter > Len(path) /\ ~needs_end)
          => (events' = events /\ done')
    /\ done => (events' = events /\ done')

\* C32: the event stream is finite: n segments yield at most 2n + 1
\* events; exhaustion with needs_end set yields exactly one final
\* End(close = false); once end-of-stream was returned every further pull
\* returns end-of-stream and no event
C32_StreamFinite == []C32_Bounded /\ [][C32_ExhaustedStep]_vars

\* a drained stream of more events than segments whose last event is the
\* End built at exhaustion
C32_Witness ==
    /\ done
    /\ Len(events) > Len(path)
    /\ cause[Len(events)] = "None"
    /\ events[Len(events)].type = "End" /\ ~events[Len(events)].close
    /\ \E k \in 1..Len(events) : cause[k] = "deferred"

-----------------------------------------------------------------------------
(* The glyph outline adapter against the event stream (SpecGlyph) *)

\* a point of the event stream as the builder of the given scale places it
Placed(pt, scale) == <<F32(pt[1] * scale), 0 - F32(pt[2] * scale)>>

\* an event of the stream, scaled and flipped
PlacedEvent(e, scale) ==
    CASE e.type = "Begin" -> Begin(Placed(e.at, scale))
      [] e.type = "Line" -> Line(Placed(e.from, scale), Placed(e.to, scale))
      [] e.type = "Cubic" -> Cubic(Placed(e.from, scale), Placed(e.ctrl1, scale),
                                   Placed(e.ctrl2, scale), Placed(e.to, scale))
      [] e.type = "End" -> End(Placed(e.last, scale), Placed(e.first, scale), e.close)

\* C33: for the same move, line, cubic and close inputs the glyph outline
\* adapter returns the events of the drained stream, scaled and flipped; it
\* does not abort on an outline that ends in an open contour
C33_AdapterMatchesStream ==
    call.op = "GlyphBuilder::path"
        => /\ ~panicked
           /\ call.result = [k \in 1..Len(events) |-> PlacedEvent(events[k], call.arg)]

-----------------------------------------------------------------------------
(* set_instances, update and the world (SpecWorld) *)

\* C34, per step: set_instances leaves its list in the DrawCall, dirty; an
\* update leaves the list of a dirty DrawCall as it is, and dirty; the
\* next render returns and uploads and draws the list of every dirty
\* DrawCall that has instances
C34_DirtyStep ==
    /\ (call'.op = "set_instances" /\ call'.result = "ok")
          => /\ draw_calls'[call'.mesh + 1].instances = call'.arg
             /\ draw_calls'[call'.mesh + 1].refresh_instances
    /\ \A i \in 1..Len(draw_calls) :
          draw_calls[i].refresh_instances
            => /\ call'.op = "update"
                    => /\ draw_calls'[i].instances = draw_calls[i].instances
                       /\ draw_calls'[i].refresh_instances
               /\ (/\ call'.op = "render" /\ ~panicked
                   /\ draw_calls[i].instances # <<>>)
                    => /\ call'.result = "ok"
                       /\ \E j \in CmdsAt(call'.cmds, "update") :
                          /\ call'.cmds[j].mesh = i - 1
                          /\ call'.cmds[j].data = draw_calls[i].instances
                          /\ call'.cmds[j + 1].cmd = "draw"
                          /\ call'.cmds[j + 1].mesh = i - 1
                          /\ call'.cmds[j + 1].instances = Len(draw_calls[i].instances)

\* C34: the instances written with set_instances for a mesh are the ones
\* the next render draws even if update runs in between: update does not
\* overwrite the list of a DrawCall whose refresh_instances is still set
C34_SetInstancesSurviveUpdate == [][C34_DirtyStep]_vars

\* the entities of world tagged mesh, by their places in world
TaggedAt(world, mesh) == {k \in 1..Len(world) : world[k].mesh = mesh}

\* C35: when update replaces the list of a DrawCall the new list holds
\* exactly the Instance components of the entities tagged with the
\* DrawCall's Mesh, one for each, and none of an entity tagged with another
\* Mesh; update marks every DrawCall dirty
C35_UpdateStep ==
    call'.op = "update"
        => \A i \in 1..Len(draw_calls') :
              /\ draw_calls'[i].refresh_instances
              /\ ~draw_calls[i].refresh_instances
                    => LET list == draw_calls'[i].instances
                           world == call'.arg
                       IN  /\ Len(list) = Cardinality(TaggedAt(world, i - 1))
                           /\ \A k \in TaggedAt(world, i - 1) :
                                 \E j \in 1..Len(list) : list[j] = world[k].instance
                           /\ \A j \in 1..Len(list) :
                                 /\ \E k \in TaggedAt(world, i - 1) :
                                       list[j] = world[k].instance
                                 /\ \A k \in 1..Len(world) :
                                       world[k].mesh # i - 1 => list[j] # world[k].instance

C35_UpdateFromWorld == [][C35_UpdateStep]_vars

\* an update has given one DrawCall the instance of its entity and left
\* another, which has no entity, empty, in a world of at least one entity
C35_Witness ==
    /\ call.op = "update"
    /\ Len(draw_calls) = 2
    /\ Len(call.arg) = 1 /\ call.arg[1].mesh = 1
    /\ draw_calls[1].instances = <<>> /\ draw_calls[1].refresh_instances
    /\ draw_calls[2].instances = <<call.arg[1].instance>>

\* the geometry of a DrawCall: its vertices and indices, and the buffers
\* made from them once it has bindings
Geometry(dc) == <<dc.vertices, dc.indices, dc.bindings>>

\* C36: a Mesh refers to the same geometry as long as the process runs: no
\* operation changes the vertices, the indices or the vertex and index
\* buffers of a DrawCall that exists, except that a render gives a DrawCall
\* without bindings the buffers of its own vertices and indices; and
\* set_instances(m, ..) changes nothing of a DrawCall other than m
C36_MeshStep ==
    /\ Len(draw_calls') >= Len(draw_calls)
    /\ \A i \in 1..Len(draw_calls) :
          /\ draw_calls'[i].vertices = draw_calls[i].vertices
          /\ draw_calls'[i].indices = draw_calls[i].indices
          /\ draw_calls[i].bindings # None
                => draw_calls'[i].bindings = draw_calls[i].bindings
          /\ draw_calls'[i].bindings # None
                => /\ draw_calls'[i].bindings[1].vertex_data = draw_calls[i].vertices
                   /\ draw_calls'[i].bindings[1].index_data = draw_calls[i].indices
          /\ (call'.op = "set_instances" /\ call'.mesh # i - 1)
                => draw_calls'[i] = draw_calls[i]
          /\ (call'.op = "set_instances" /\ call'.mesh = i - 1)
                => Geometry(draw_calls'[i]) = Geometry(draw_calls[i])

C36_MeshKeepsGeometry == [][C36_MeshStep]_vars

\* set_instances has written the list of the first of two DrawCalls of
\* different geometry, both with buffers, after a resize; the other
\* DrawCall has no instance
C36_Witness ==
    /\ call.op = "set_instances" /\ call.mesh = 0 /\ call.arg # <<>>
    /\ Len(draw_calls) = 2
    /\ draw_calls[1].vertices # draw_calls[2].vertices
    /\ draw_calls[1].bindings # None /\ draw_calls[2].bindings # None
    /\ draw_calls[1].instances = call.arg
    /\ draw_calls[2].instances = <<>>
    /\ offscreen_pass # 1

\* the textures of context c that were destroyed with their pass
Destroyed(c) ==
    UNION {{c.passes[p].color_img, c.passes[p].depth_img} :
             p \in {q \in 1..Len(c.passes) : c.passes[q].deleted > 0}}

\* C37: in every reachable state the one texture bound as the input of the
\* post-processing sampler is the colour texture of the offscreen pass that
\* is current, which has not been destroyed; no destroyed texture is bound,
\* and the post-processing draw of a frame samples none
C37_SamplerInputLive ==
    /\ Len(post_processing_bind.images) = 1
    /\ offscreen_pass \in 1..Len(ctx.passes)
    /\ ctx.passes[offscreen_pass].deleted = 0
    /\ post_processing_bind.images[1] = ctx.passes[offscreen_pass].color_img
    /\ post_processing_bind.images[1] \notin Destroyed(ctx)
    /\ call.op = "render" =>
          \A j \in CmdsAt(call.cmds, "draw_post") :
             \A k \in 1..Len(call.cmds[j].images) :
                call.cmds[j].images[k] \notin Destroyed(ctx)

\* a frame rendered after one resize: the colour texture made by
\* Render::new is destroyed, and the frame has sampled the texture the
\* resize made
C37_Witness ==
    /\ call.op = "render" /\ call.result = "ok"
    /\ Len(ctx.passes) = 2
    /\ 1 \in Destroyed(ctx)
    /\ \E j \in CmdsAt(call.cmds, "draw_post") :
          call.cmds[j].images = <<ctx.passes[2].color_img>>

\* the commands of a resize
ResizeCmds == {"create_offscreen_pass", "delete"}

\* C38, per step: a render call that returns has begun the offscreen pass
\* once, on the pass that was current when it was called, has sampled the
\* colour texture of that same pass in its post-processing draw, has issued
\* no command of a resize before its commit_frame, which is its last
\* command, and leaves the current pass and the passes as they were; a
\* resize issues no command of a frame
C38_FrameStep ==
    /\ (call'.op = "render" /\ call'.result = "ok")
          => LET cmds == call'.cmds
             IN  /\ Cardinality(CmdsAt(cmds, "begin_pass")) = 1
                 /\ CmdsAt(cmds, "commit_frame") = {Len(cmds)}
                 /\ \A j \in 1..Len(cmds) : cmds[j].cmd \notin ResizeCmds
                 /\ \A j \in CmdsAt(cmds, "begin_pass") :
                       /\ cmds[j].pass = offscreen_pass
                       /\ ctx.passes[cmds[j].pass].deleted = 0
                       /\ \A k \in CmdsAt(cmds, "draw_post") :
                             /\ j < k
                             /\ cmds[k].images = <<ctx.passes[cmds[j].pass].color_img>>
                 /\ CmdsAt(cmds, "draw_post") # {}
                 /\ offscreen_pass' = offscreen_pass
                 /\ ctx'.passes = ctx.passes
                 /\ post_processing_bind' = post_processing_bind
    /\ call'.op = "resize"
          => \A j \in 1..Len(call'.cmds) : call'.cmds[j].cmd \in ResizeCmds

\* C38: no resize is interleaved between the begin of a render call and
\* its frame commit, so one frame never uses two different offscreen
\* targets
C38_OneTargetPerFrame == [][C38_FrameStep]_vars

\* a frame with a draw, rendered into the pass that a resize to 1920 x 1080
\* made, between two resizes at most
C38_Witness ==
    /\ call.op = "render" /\ call.result = "ok"
    /\ CmdsAt(call.cmds, "draw") # {}
    /\ offscreen_pass = 2
    /\ ctx.passes[2].width = 1920
    /\ \E j \in CmdsAt(call.cmds, "begin_pass") : call.cmds[j].pass = 2

\* C39: a glyph upload request that fails, because a character has no glyph
\* in the font, a glyph has no outline or a glyph has no horizontal
\* advance, leaves the table of DrawCalls as it was before the request: no
\* DrawCall of a glyph processed earlier in the request remains
C39_FailedRequestStep ==
    (call'.op = "Font::upload" /\ call'.result = "err")
        => /\ draw_calls' = draw_calls
           /\ issued' = issued
           /\ missing_bindings' = missing_bindings

C39_FailedRequestLeavesTable == [][C39_FailedRequestStep]_vars

\* the characters of the request chars
Requested(chars) == {chars[k] : k \in 1..Len(chars)}

\* C40: a glyph request that succeeds makes exactly one Mesh, and so one
\* DrawCall, for each distinct character requested, and records the scaled
\* advance and left side bearing of each; a character requested more than
\* once makes no further DrawCall
C40_RequestStep ==
    (call'.op = "Font::upload" /\ call'.result = "ok")
        => LET chars == call'.arg
               f == font[1]
               meshes == font_instance'[1].meshes
           IN  /\ DOMAIN meshes = Requested(chars)
               /\ Len(draw_calls') = Len(draw_calls) + Cardinality(Requested(chars))
               /\ \A c \in DOMAIN meshes :
                     /\ meshes[c].mesh \in Len(draw_calls)..(Len(draw_calls') - 1)
                     /\ draw_calls'[meshes[c].mesh + 1].vertices
                           = f.glyphs[c].tess.geometry.vertices
                     /\ meshes[c].advance = f.glyphs[c].advance[1] * FontScale(f)
                     /\ meshes[c].side_bearing
                           = (IF f.glyphs[c].bearing # None THEN f.glyphs[c].bearing[1] ELSE 0)
                             * FontScale(f)
               /\ \A c, d \in DOMAIN meshes : c # d => meshes[c].mesh # meshes[d].mesh

C40_OneMeshPerChar == [][C40_RequestStep]_vars


=============================================================================
